---- MODULE Spec2Model ----
\* Model of the GIF worker of src/main.py: the Pub/Sub callback (cache-aside
\* lookup, provider fallback, Discord notification, ack/nack), run concurrently
\* by the subscriber threads over one shared Redis cache.
EXTENDS Integers, Sequences, FiniteSets, TLC

VARIABLES run, redis, now, DISCORD_URL, env, main_pc

vars == <<run, redis, now, DISCORD_URL, env, main_pc>>

\* ---------------------------------------------------------------- bounds
\* The clock advances TickSeconds at a time, at most MaxTicks times.
MaxTicks == 3
TickSeconds == 900
MaxTime == MaxTicks * TickSeconds

\* ------------------------------------------------------------- constants
\* redis_client.setex(f"gif:{keyword}", 1800, gif_url)
TTL == 1800

\* The streaming pull hands each message to callback on a thread of its own;
\* two messages are in play, so up to two runs are concurrent.
Messages == {"m1", "m2"}

\* ------------------------------------------------------- Python values
\* Text is a sequence of code points, bytes a sequence of octets.
PyNone == [t |-> "None", s |-> <<>>]
PyStr(s) == [t |-> "str", s |-> s]
PyBytes(b) == [t |-> "bytes", s |-> b]
\* Python truthiness of None, str and bytes: None and empty are falsy.
Truthy(v) == v.t # "None" /\ v.s # <<>>

SPACE == 32
IsSpace(c) == c \in {9, 10, 13, SPACE}

RECURSIVE LStrip(_)
LStrip(s) == IF s # <<>> /\ IsSpace(Head(s)) THEN LStrip(Tail(s)) ELSE s

RECURSIVE RStrip(_)
RStrip(s) ==
    IF s # <<>> /\ IsSpace(s[Len(s)]) THEN RStrip(SubSeq(s, 1, Len(s) - 1)) ELSE s

\* Variant: the keyword is taken as sent.
NoStrip(s) == s

\* str.strip(): drops leading and trailing whitespace, keeps inner whitespace.
Strip(s) == RStrip(LStrip(s))

\* str.encode('utf-8') for code points below 2048.
RECURSIVE EncodeUtf8(_)
EncodeUtf8(s) ==
    IF s = <<>> THEN <<>>
    ELSE LET c == Head(s)
         IN (IF c < 128 THEN <<c>> ELSE <<192 + (c \div 64), 128 + (c % 64)>>)
            \o EncodeUtf8(Tail(s))

\* bytes.decode('utf-8') on the encodings above.
RECURSIVE DecodeUtf8(_)
DecodeUtf8(b) ==
    IF b = <<>> THEN <<>>
    ELSE IF Head(b) < 128 THEN <<Head(b)>> \o DecodeUtf8(Tail(b))
    ELSE <<(Head(b) - 192) * 64 + (b[2] - 128)>> \o DecodeUtf8(Tail(Tail(b)))

\* ------------------------------------------------------------- messages
\* message.data, by what json.loads(message.data.decode('utf-8')) makes of it.
Instructions == { <<>>, <<SPACE>>, <<SPACE, 99, SPACE>>, <<100>> }

Payload(kind, s) == [kind |-> kind, instruction |-> s]

Payloads ==
    { Payload(k, <<>>) : k \in {"not_utf8", "not_json", "json_list",
                                "map_no_instruction", "map_instruction_null",
                                "map_instruction_number"} }
    \cup { Payload("map_instruction_string", s) : s \in Instructions }

Raised == [raised |-> TRUE, keyword |-> <<>>]
Parsed(k) == [raised |-> FALSE, keyword |-> k]

\* data = json.loads(message.data.decode('utf-8'))
\* keyword = data.get('instruction', '').strip()
\* Variant: the field is read with data['instruction'], which raises when it
\* is missing.
StrictParseKeyword(p) ==
    IF p.kind = "map_instruction_string" THEN Parsed(Strip(p.instruction))
    ELSE Raised

\* Variant: anything that is not a string instruction counts as an empty keyword.
LenientParseKeyword(p) ==
    IF p.kind = "map_instruction_string" THEN Parsed(Strip(p.instruction))
    ELSE Parsed(<<>>)
ParseKeyword(p) ==
    IF p.kind \in {"not_utf8", "not_json"} THEN Raised
    ELSE IF p.kind = "json_list" THEN Raised
    ELSE IF p.kind = "map_no_instruction" THEN Parsed(Strip(<<>>))
    ELSE IF p.kind = "map_instruction_string" THEN Parsed(Strip(p.instruction))
    ELSE Raised

Keywords == { Strip(s) : s \in Instructions } \ { <<>> }

\* f"gif:{keyword}"
CacheKey(keyword) == <<103, 105, 102, 58>> \o keyword
Keys == { CacheKey(k) : k \in Keywords }

\* ------------------------------------------------------------ providers
\* sources = [self.search_gif_giphy, self.search_gif_gfycat, self.search_gif_imgur]
Sources == <<"giphy", "gfycat", "imgur">>

\* What the provider's HTTP exchange comes to: an exception (timeout, HTTP
\* error, malformed body), an empty result set, an item whose URL field is
\* empty, or an item with a URL.
RawOutcomes == {"error", "no_results", "empty_url", "url"}

HostCode(source) ==
    IF source = "giphy" THEN 71 ELSE IF source = "gfycat" THEN 70 ELSE 233

\* The URL the provider serves for the keyword.
Url(source, keyword) == <<HostCode(source)>> \o keyword

\* search_gif_giphy / search_gif_gfycat / search_gif_imgur: every exception
\* is caught inside and None is returned.
SearchGif(source, keyword, raw) ==
    IF raw = "url" THEN PyStr(Url(source, keyword))
    ELSE IF raw = "empty_url" THEN PyStr(<<>>)
    ELSE PyNone

\* random.shuffle(sources): any ordering of the three sources.
Shuffles ==
    { q \in [1..Len(Sources) -> {Sources[j] : j \in 1..Len(Sources)}] :
        \A a, b \in 1..Len(Sources) : a # b => q[a] # q[b] }

\* ---------------------------------------------------------------- redis
NoEntry == [present |-> FALSE, val |-> <<>>, wtime |-> 0, ttl |-> 0]

\* An entry is served until ttl seconds after it was written.
Live(e, t) == e.present /\ t < e.wtime + e.ttl

\* redis_client.get(key): bytes of a live entry, None otherwise.
RedisGet(store, key, t) ==
    IF Live(store[key], t) THEN PyBytes(store[key].val) ELSE PyNone

\* Variant: the entry is kept for twice the requested time.
RedisSetexLong(store, key, ttl, value, t) ==
    [store EXCEPT ![key] =
        [present |-> TRUE, val |-> EncodeUtf8(value), wtime |-> t, ttl |-> 2 * ttl]]

\* redis_client.setex(key, ttl, value): the value is stored utf-8 encoded.
RedisSetex(store, key, ttl, value, t) ==
    [store EXCEPT ![key] =
        [present |-> TRUE, val |-> EncodeUtf8(value), wtime |-> t, ttl |-> ttl]]

\* ----------------------------------------------------------------- sink
\* requests.post(webhook_url, ...): delivered with 2xx, delivered with an
\* HTTP error status, or an exception (timeout, connection error).
SinkOutcomes == {"ok", "http_error", "exception"}

\* {"content": f"... Here's a GIF for: **{keyword}**\n{gif_url}"}
GifContent(keyword, gif_url) ==
    [template |-> "gif", keyword |-> keyword, url |-> gif_url]

\* {"content": f"... Sorry, no GIF found for: **{keyword}**"}
NotFoundContent(keyword) ==
    [template |-> "not_found", keyword |-> keyword, url |-> <<>>]

\* send_gif_to_discord: True on 2xx, False on anything else; never raises.
SendGifResult(outcome) == outcome = "ok"

\* ------------------------------------------------------- one callback run
NoPayload == Payload("map_no_instruction", <<>>)

\* The locals of callback and the effects of the run seen from outside.
Fresh(data) ==
    [pc |-> "received", data |-> data, keyword |-> <<>>, gif_url |-> PyNone,
     sources |-> <<>>, i |-> 0,
     hit |-> FALSE, found |-> FALSE, raw |-> "none", calls |-> 0, gets |-> 0, sets |-> 0,
     posts |-> <<>>, success |-> FALSE, error |-> "none",
     acks |-> 0, nacks |-> 0, redelivered |-> FALSE]

\* message.ack()
MessageAck(r) == [r EXCEPT !.acks = @ + 1]

\* message.nack()
MessageNack(r) == [r EXCEPT !.nacks = @ + 1]

\* Variant: the handler logs the error and returns without message.nack().
OnExceptionLogOnly(r) == [r EXCEPT !.pc = "done"]

\* except Exception as e: ... message.nack()
OnException(r) == [MessageNack(r) EXCEPT !.pc = "done"]

\* if not keyword: ... message.ack(); return
OnEmptyKeyword(r) == [MessageAck(r) EXCEPT !.pc = "done"]

\* Lines 126-135: parse the payload, strip the keyword, test it for empty.
ParseStep(r) ==
    LET k == ParseKeyword(r.data)
    IN IF k.raised THEN OnException([r EXCEPT !.error = "parse"])
       ELSE IF k.keyword = <<>> THEN OnEmptyKeyword(r)
       ELSE [r EXCEPT !.keyword = k.keyword, !.pc = "get"]

\* Variant: the setex is made after the if/else, on a hit as well.
AfterGetRecache(r, cached) ==
    IF Truthy(cached)
    THEN [r EXCEPT !.gif_url = PyStr(DecodeUtf8(cached.s)), !.hit = TRUE,
                   !.pc = "setex"]
    ELSE [r EXCEPT !.pc = "shuffle"]

\* Variant: the cached value is ignored and every request is searched anew.
AfterGetIgnoreCache(r, cached) == [r EXCEPT !.pc = "shuffle"]

\* Lines 138-142: the outcome of redis_client.get.
AfterGet(r, cached) ==
    IF Truthy(cached)
    THEN [r EXCEPT !.gif_url = PyStr(DecodeUtf8(cached.s)), !.hit = TRUE,
                   !.pc = "send"]
    ELSE [r EXCEPT !.pc = "shuffle"]

\* Variant: the exception of a source is not caught and ends the run in the
\* handler of callback.
AfterSourceRaise(r, ret) ==
    IF r.raw = "error" THEN OnException([r EXCEPT !.sources = <<>>, !.i = 0])
    ELSE IF Truthy(ret)
    THEN [r EXCEPT !.gif_url = ret, !.pc = "setex", !.sources = <<>>, !.i = 0]
    ELSE IF r.i = Len(r.sources)
    THEN [r EXCEPT !.gif_url = PyNone, !.pc = "not_found",
                   !.sources = <<>>, !.i = 0]
    ELSE [r EXCEPT !.i = @ + 1]

\* Variant: the URL found is sent on without being cached.
AfterSourceNoCache(r, ret) ==
    IF Truthy(ret)
    THEN [r EXCEPT !.gif_url = ret, !.pc = "send", !.sources = <<>>, !.i = 0]
    ELSE IF r.i = Len(r.sources)
    THEN [r EXCEPT !.gif_url = PyNone, !.pc = "not_found",
                   !.sources = <<>>, !.i = 0]
    ELSE [r EXCEPT !.i = @ + 1]

\* Variant: a source that yields nothing is asked again.
AfterSourceRetry(r, ret) ==
    IF Truthy(ret)
    THEN [r EXCEPT !.gif_url = ret, !.pc = "setex", !.sources = <<>>, !.i = 0]
    ELSE r

\* Variant: the result is tested with "is not None", so an empty URL counts
\* as found.
AfterSourceNotNone(r, ret) ==
    IF ret.t # "None"
    THEN [r EXCEPT !.gif_url = ret, !.pc = "setex", !.sources = <<>>, !.i = 0]
    ELSE IF r.i = Len(r.sources)
    THEN [r EXCEPT !.gif_url = PyNone, !.pc = "not_found",
                   !.sources = <<>>, !.i = 0]
    ELSE [r EXCEPT !.i = @ + 1]

\* Variant: every source is tried and the last URL found is returned.
AfterSourceTryAll(r, ret) ==
    LET url == IF Truthy(ret) THEN ret ELSE r.gif_url
    IN IF r.i < Len(r.sources) THEN [r EXCEPT !.i = @ + 1, !.gif_url = url]
       ELSE IF Truthy(url)
       THEN [r EXCEPT !.gif_url = url, !.pc = "setex", !.sources = <<>>, !.i = 0]
       ELSE [r EXCEPT !.gif_url = PyNone, !.pc = "not_found",
                      !.sources = <<>>, !.i = 0]

\* Lines 96-106: one turn of the loop over the shuffled sources.
AfterSource(r, ret) ==
    IF Truthy(ret)
    THEN [r EXCEPT !.gif_url = ret, !.pc = "setex", !.sources = <<>>, !.i = 0]
    ELSE IF r.i = Len(r.sources)
    THEN [r EXCEPT !.gif_url = PyNone, !.pc = "not_found",
                   !.sources = <<>>, !.i = 0]
    ELSE [r EXCEPT !.i = @ + 1]

\* Variant: a failed post is attempted a second time.
AfterSendRetry(r, outcome) ==
    LET c == GifContent(r.keyword, r.gif_url.s)
    IN [r EXCEPT !.posts = IF outcome = "ok" THEN Append(@, c) ELSE @ \o <<c, c>>,
                 !.success = SendGifResult(outcome), !.pc = "ack"]

\* Variant: an exception of requests.post escapes send_gif_to_discord and
\* reaches the handler of callback.
AfterSendPropagate(r, outcome) ==
    LET sent == [r EXCEPT !.posts = Append(@, GifContent(r.keyword, r.gif_url.s))]
    IN IF outcome = "exception"
       THEN [sent EXCEPT !.nacks = @ + 1, !.pc = "done"]
       ELSE [sent EXCEPT !.success = SendGifResult(outcome), !.pc = "ack"]

\* Lines 108-120 and 164-170: the post made by send_gif_to_discord.
AfterSend(r, outcome) ==
    [r EXCEPT !.posts = Append(@, GifContent(r.keyword, r.gif_url.s)),
              !.success = SendGifResult(outcome), !.pc = "ack"]

\* Lines 153-159: the "not found" post; any exception is swallowed.
AfterNotFound(r, outcome) ==
    [r EXCEPT !.posts = Append(@, NotFoundContent(r.keyword)), !.pc = "ack"]

\* Variant: the list of sources is one object shared by all calls and is
\* shuffled in place.
ShuffledShared(rs, m, q) ==
    [x \in Messages |->
        IF x = m THEN [rs[x] EXCEPT !.sources = q, !.i = 1, !.pc = "loop"]
        ELSE IF rs[x].pc = "loop" THEN [rs[x] EXCEPT !.sources = q]
        ELSE rs[x]]

\* Lines 87-94: the list of sources is built anew inside the call and
\* shuffled; it belongs to the run of m alone.
Shuffled(rs, m, q) ==
    [rs EXCEPT ![m] = [@ EXCEPT !.sources = q, !.i = 1, !.pc = "loop"]]

\* ---------------------------------------------------------- environment
\* Which of the variables main() reads are set; with REDIS_HOST unset there
\* is no server to ping.
Environments ==
    [REDIS_HOST : BOOLEAN, GCP_PROJECT_ID : BOOLEAN,
     PUBSUB_SUBSCRIPTION_ID : BOOLEAN]

\* Lines 198-203 and 213-215: the checks main() makes before subscribing.
StartupOk(e) ==
    e.REDIS_HOST /\ e.GCP_PROJECT_ID /\ e.PUBSUB_SUBSCRIPTION_ID

\* ---------------------------------------------------------------- state
Init ==
    /\ run = [m \in Messages |-> [Fresh(NoPayload) EXCEPT !.pc = "idle"]]
    /\ redis = [k \in Keys |-> NoEntry]
    /\ now = 0
    /\ DISCORD_URL \in BOOLEAN
    /\ env \in Environments
    /\ main_pc = "start"

\* main(), lines 178-222: connect to Redis and ping it, return if the ping
\* fails; return if GCP_PROJECT_ID or PUBSUB_SUBSCRIPTION_ID is missing;
\* otherwise subscribe with callback. DISCORD_URL is not looked at.
Main ==
    /\ main_pc = "start"
    /\ main_pc' = IF StartupOk(env) THEN "listening" ELSE "aborted"
    /\ UNCHANGED <<run, redis, now, DISCORD_URL, env>>

\* The subscriber hands message m to callback.
Receive(m) ==
    /\ main_pc = "listening"
    /\ run[m].pc = "idle"
    /\ \E data \in Payloads :
          run' = [run EXCEPT ![m] = ParseStep(Fresh(data))]
    /\ UNCHANGED <<redis, now, DISCORD_URL, env, main_pc>>

\* cached_gif = redis_client.get(f"gif:{keyword}")
CacheGet(m) ==
    /\ run[m].pc = "get"
    /\ \E ok \in BOOLEAN :
          LET r == [run[m] EXCEPT !.gets = @ + 1]
          IN run' = [run EXCEPT ![m] =
                       IF ok
                       THEN AfterGet(r, RedisGet(redis, CacheKey(r.keyword), now))
                       ELSE OnException([r EXCEPT !.error = "get"])]
    /\ UNCHANGED <<redis, now, DISCORD_URL, env, main_pc>>

\* random.shuffle(sources)
Shuffle(m) ==
    /\ run[m].pc = "shuffle"
    /\ \E q \in Shuffles : run' = Shuffled(run, m, q)
    /\ UNCHANGED <<redis, now, DISCORD_URL, env, main_pc>>

\* gif_url = source(keyword)
CallSource(m) ==
    /\ run[m].pc = "loop"
    /\ \E raw \in RawOutcomes :
          LET r == run[m]
              ret == SearchGif(r.sources[r.i], r.keyword, raw)
          IN run' = [run EXCEPT ![m] =
                       AfterSource([r EXCEPT !.calls = @ + 1, !.raw = raw,
                                             !.found = Truthy(ret)], ret)]
    /\ UNCHANGED <<redis, now, DISCORD_URL, env, main_pc>>

\* redis_client.setex(f"gif:{keyword}", 1800, gif_url); a failed call may or
\* may not have reached the server.
CacheSetex(m) ==
    /\ run[m].pc = "setex"
    /\ \E ok \in BOOLEAN, applied \in BOOLEAN :
          LET r == [run[m] EXCEPT !.sets = @ + 1]
          IN /\ (ok => applied)
             /\ redis' = IF applied
                         THEN RedisSetex(redis, CacheKey(r.keyword), TTL, r.gif_url.s, now)
                         ELSE redis
             /\ run' = [run EXCEPT ![m] =
                          IF ok THEN [r EXCEPT !.pc = "send"]
                          ELSE OnException([r EXCEPT !.error = "setex"])]
    /\ UNCHANGED <<now, DISCORD_URL, env, main_pc>>

\* Lines 152-159: the "not found" notice, sent when DISCORD_URL is set.
SendNotFound(m) ==
    /\ run[m].pc = "not_found"
    /\ IF DISCORD_URL
       THEN \E outcome \in SinkOutcomes :
               run' = [run EXCEPT ![m] = AfterNotFound(@, outcome)]
       ELSE run' = [run EXCEPT ![m] = [@ EXCEPT !.pc = "ack"]]
    /\ UNCHANGED <<redis, now, DISCORD_URL, env, main_pc>>

\* Lines 163-170: the GIF notification, sent when DISCORD_URL is set.
SendToDiscord(m) ==
    /\ run[m].pc = "send"
    /\ IF DISCORD_URL
       THEN \E outcome \in SinkOutcomes :
               run' = [run EXCEPT ![m] = AfterSend(@, outcome)]
       ELSE run' = [run EXCEPT ![m] = [@ EXCEPT !.pc = "ack"]]
    /\ UNCHANGED <<redis, now, DISCORD_URL, env, main_pc>>

\* message.ack() at line 160 or 172.
Ack(m) ==
    /\ run[m].pc = "ack"
    /\ run' = [run EXCEPT ![m] = [MessageAck(@) EXCEPT !.pc = "done"]]
    /\ UNCHANGED <<redis, now, DISCORD_URL, env, main_pc>>

\* Time passes.
Tick ==
    /\ now + TickSeconds <= MaxTime
    /\ now' = now + TickSeconds
    /\ UNCHANGED <<run, redis, DISCORD_URL, env, main_pc>>

Next ==
    \/ Main
    \/ \E m \in Messages : Receive(m)
    \/ \E m \in Messages : CacheGet(m)
    \/ \E m \in Messages : Shuffle(m)
    \/ \E m \in Messages : CallSource(m)
    \/ \E m \in Messages : CacheSetex(m)
    \/ \E m \in Messages : SendNotFound(m)
    \/ \E m \in Messages : SendToDiscord(m)
    \/ \E m \in Messages : Ack(m)
    \/ Tick

Spec == Init /\ [][Next]_vars

\* One step of the run of m. Every outbound call is made with a timeout (5 s
\* for Redis, 10 s for the providers and the sink), so a run that has a step
\* to take takes it.
Step(m) ==
    \/ CacheGet(m) \/ Shuffle(m) \/ CallSource(m) \/ CacheSetex(m)
    \/ SendNotFound(m) \/ SendToDiscord(m) \/ Ack(m)

\* The runs without the clock: whether a run ends does not depend on the
\* time at which its steps are taken.
NextUntimed ==
    \/ Main
    \/ \E m \in Messages : Receive(m)
    \/ \E m \in Messages : Step(m)

SpecFair ==
    Init /\ [][NextUntimed]_vars /\ \A m \in Messages : WF_vars(Step(m))

\* A run of m dies between its cache write and its ack (spec section 5) and
\* the message stays unacknowledged; one such fault is considered.
Crash(m) ==
    /\ run[m].pc \in {"send", "ack"}
    /\ \A m2 \in Messages : ~run[m2].redelivered /\ run[m2].pc # "crashed"
    /\ run[m].sets = 1 /\ run[m].error = "none"
    /\ run' = [run EXCEPT ![m] = [Fresh(run[m].data) EXCEPT !.pc = "crashed"]]
    /\ UNCHANGED <<redis, now, DISCORD_URL, env, main_pc>>

\* The transport delivers the unacknowledged message again: a new run of
\* callback on the same payload.
Redeliver(m) ==
    /\ main_pc = "listening"
    /\ run[m].pc = "crashed"
    /\ run' = [run EXCEPT ![m] =
                 ParseStep([Fresh(run[m].data) EXCEPT !.redelivered = TRUE])]
    /\ UNCHANGED <<redis, now, DISCORD_URL, env, main_pc>>

NextCrash ==
    \/ Next
    \/ \E m \in Messages : Crash(m)
    \/ \E m \in Messages : Redeliver(m)

SpecCrash == Init /\ [][NextCrash]_vars

TypeOK ==
    /\ now \in 0..MaxTime
    /\ DISCORD_URL \in BOOLEAN
    /\ env \in Environments
    /\ main_pc \in {"start", "listening", "aborted"}
    /\ \A m \in Messages : run[m].pc \in {"idle", "get", "shuffle", "loop", "setex",
                                         "not_found", "send", "ack", "done",
                                         "crashed"}

\* ------------------------------------------------------------ properties
Finished(m) == run[m].pc = "done"

ProviderUrls(keyword) == { Url(Sources[j], keyword) : j \in 1..Len(Sources) }

Entry(keyword) == redis[CacheKey(keyword)]

\* A payload from which no keyword can be read.
Malformed(data) ==
    data.kind \in {"not_utf8", "not_json", "json_list",
                   "map_instruction_null", "map_instruction_number"}

\* A string instruction made of whitespace only (the empty string included).
Blank(data) ==
    /\ data.kind = "map_instruction_string"
    /\ \A j \in 1..Len(data.instruction) : IsSpace(data.instruction[j])

\* C1: every message handed to callback gets exactly one of ack and nack by
\* the time its run finishes, and never more than one receipt at any time.
C1_ExactlyOneReceipt ==
    \A m \in Messages :
        /\ run[m].acks + run[m].nacks <= 1
        /\ Finished(m) => run[m].acks + run[m].nacks = 1

\* One message finished acknowledged and the other negatively acknowledged.
C1_Witness ==
    \E m1, m2 \in Messages :
        /\ Finished(m1) /\ run[m1].acks = 1
        /\ Finished(m2) /\ run[m2].nacks = 1

\* C2 (as claimed): a finished run for a non-empty keyword in which a provider
\* returned a result, and in which no cache call failed, has acknowledged
\* once, not negatively acknowledged, and made exactly one sink call carrying
\* a non-empty URL.
C2_AckAndNotifyOnce ==
    \A m \in Messages :
        (Finished(m) /\ run[m].found /\ run[m].error = "none")
            => /\ run[m].acks = 1 /\ run[m].nacks = 0
               /\ Len(run[m].posts) = 1
               /\ run[m].posts[1].template = "gif"
               /\ run[m].posts[1].url # <<>>

C4_ExpiredReadsAbsent ==
    [][\A m \in Messages :
          LET r == run[m]
              r2 == run'[m]
              e == Entry(r.keyword)
          IN (r.pc = "get" /\ r2.pc # "get")
               => /\ (e.present /\ now >= e.wtime + TTL)
                       => /\ ~r2.hit
                          /\ r2.pc = "shuffle" \/ r2.error = "get"
                  /\ r2.hit => (e.present /\ now < e.wtime + TTL)]_vars

\* A run missed the cache although an entry written 1800 seconds ago or
\* earlier is still stored for its keyword, and is searching the providers.
C4_Witness ==
    \E m \in Messages :
        /\ run[m].pc = "loop" /\ ~run[m].hit
        /\ Entry(run[m].keyword).present
        /\ now >= Entry(run[m].keyword).wtime + TTL

\* C5 (as claimed): a finished run that missed the cache and got nothing from
\* every provider has made one sink call with the "not found" notice for its
\* keyword and has acknowledged, not negatively acknowledged.
C5_NotFoundNotifiedAndAcked ==
    \A m \in Messages :
        (Finished(m) /\ run[m].gets = 1 /\ run[m].error = "none" /\ ~run[m].hit
         /\ run[m].calls = Len(Sources) /\ ~run[m].found)
            => /\ run[m].posts = <<NotFoundContent(run[m].keyword)>>
               /\ run[m].acks = 1 /\ run[m].nacks = 0

\* C6: a message whose payload is not valid UTF-8, not valid JSON, not a
\* mapping, or has a non-string instruction is negatively acknowledged, with
\* no sink call, no provider call and no cache read or write.
C6_MalformedNacked ==
    \A m \in Messages :
        (run[m].pc # "idle" /\ Malformed(run[m].data))
            => /\ Finished(m) /\ run[m].nacks = 1 /\ run[m].acks = 0
               /\ run[m].posts = <<>> /\ run[m].calls = 0
               /\ run[m].gets = 0 /\ run[m].sets = 0

\* Both a payload that is not a mapping and one with a non-string instruction
\* have been handled.
C6_Witness ==
    \E m1, m2 \in Messages :
        /\ Finished(m1) /\ run[m1].data.kind = "json_list"
        /\ Finished(m2) /\ run[m2].data.kind = "map_instruction_number"

\* C7: a message whose instruction is empty or whitespace only is
\* acknowledged at once, with no provider call, no sink call and no cache
\* read or write.
C7_BlankAcked ==
    \A m \in Messages :
        (run[m].pc # "idle" /\ Blank(run[m].data))
            => /\ Finished(m) /\ run[m].acks = 1 /\ run[m].nacks = 0
               /\ run[m].calls = 0 /\ run[m].posts = <<>>
               /\ run[m].gets = 0 /\ run[m].sets = 0

\* A whitespace-only instruction has been handled.
C7_Witness ==
    \E m \in Messages :
        /\ Finished(m) /\ run[m].data.kind = "map_instruction_string"
        /\ run[m].data.instruction = <<SPACE>>

\* C8 (as claimed): when all concurrent runs on the same keyword, none of
\* which met a cache failure, have finished, each one hit the cache or
\* invoked providers, each one made its own sink call, and the cached value
\* is a URL that a provider returned to one of them.
C8_ConcurrentSameKeyword ==
    (/\ \A m \in Messages : Finished(m) /\ run[m].gets = 1 /\ run[m].error = "none"
     /\ \A m1, m2 \in Messages : run[m1].keyword = run[m2].keyword)
        => \A m \in Messages :
              /\ run[m].hit \/ run[m].calls > 0
              /\ Len(run[m].posts) = 1
              /\ Entry(run[m].keyword).present
                    => \E m2 \in Messages :
                          /\ run[m2].found
                          /\ Entry(run[m].keyword).val = EncodeUtf8(run[m2].gif_url.s)

\* C9: from the notify step on, whatever the sink call comes to, the run goes
\* on to acknowledge and never negatively acknowledges, and the notify step
\* makes at most one sink call.
C9_SinkOutcomeIrrelevant ==
    [][\A m \in Messages :
          LET r == run[m]
              r2 == run'[m]
          IN /\ (r.pc \in {"send", "not_found"} /\ r2 # r)
                   => /\ r2.pc = "ack" /\ r2.acks = 0 /\ r2.nacks = 0
                      /\ Len(r2.posts) <= Len(r.posts) + 1
             /\ (r.pc = "ack" /\ r2 # r)
                   => /\ r2.pc = "done" /\ r2.acks = 1 /\ r2.nacks = 0
                      /\ r2.posts = r.posts]_vars

\* A run whose GIF post failed has finished acknowledged, with that one post.
C9_Witness ==
    \E m \in Messages :
        /\ Finished(m) /\ run[m].acks = 1 /\ run[m].nacks = 0
        /\ Len(run[m].posts) = 1 /\ run[m].posts[1].template = "gif"
        /\ ~run[m].success

\* C10: a run in which parsing, the cache read or the cache write raised is
\* finished with a negative acknowledgment and without a sink call; no run
\* has both a negative acknowledgment and a sink call.
C10_ErrorNacksWithoutNotify ==
    \A m \in Messages :
        /\ run[m].error # "none"
              => /\ Finished(m) /\ run[m].nacks = 1 /\ run[m].acks = 0
                 /\ run[m].posts = <<>>
        /\ run[m].nacks > 0 => run[m].posts = <<>>
        /\ run[m].posts # <<>> => run[m].nacks = 0

\* One run ended in nack after a failed cache write, another after a failed
\* cache read.
C10_Witness ==
    \E m1, m2 \in Messages :
        /\ Finished(m1) /\ run[m1].error = "setex" /\ run[m1].nacks = 1
        /\ Finished(m2) /\ run[m2].error = "get" /\ run[m2].nacks = 1

C12_ProviderFailureAbsorbed ==
    [][\A m \in Messages :
          LET r == run[m]
              r2 == run'[m]
          IN /\ (r.pc = "loop" /\ r2 # r /\ r2.raw = "error")
                   => /\ ~r2.found /\ r2.nacks = 0 /\ r2.error = "none"
                      /\ IF r.i < Len(Sources)
                         THEN r2.pc = "loop" /\ r2.i = r.i + 1
                         ELSE r2.pc = "not_found" /\ r2.gif_url = PyNone
             /\ r2.nacks > 0 => r2.error \in {"parse", "get", "setex"}]_vars

\* A run whose first source failed went on, got a URL from a later source and
\* finished acknowledged.
C12_Witness ==
    \E m1, m2 \in Messages :
        /\ run[m1].pc = "loop" /\ run[m1].raw = "error" /\ run[m1].i = 2
        /\ Finished(m2) /\ run[m2].raw = "error" /\ run[m2].calls = Len(Sources)
        /\ run[m2].acks = 1 /\ run[m2].nacks = 0

\* C13 (as claimed): callback handles a message only in a process whose queue
\* subscription identity, cache connection parameters and notification sink
\* address are all set.
C13_NoRunWithoutConfig ==
    \A m \in Messages :
        run[m].pc # "idle"
            => /\ env.GCP_PROJECT_ID /\ env.PUBSUB_SUBSCRIPTION_ID
               /\ env.REDIS_HOST
               /\ DISCORD_URL

\* C14: within one run the cache write comes after the provider resolution
\* and before any sink call and the ack; a sink call comes before the ack
\* and, when a provider found the URL, after the cache write; the ack of
\* such a run comes after its cache write, and nothing follows the ack.
C14_EventOrder ==
    [][\A m \in Messages :
          LET r == run[m]
              r2 == run'[m]
          IN /\ r2.sets > r.sets
                   => /\ r.found /\ r.calls > 0 /\ ~r.hit
                      /\ r2.posts = <<>> /\ r2.acks = 0
             /\ r2.posts # r.posts
                   => /\ r.acks = 0 /\ r2.acks = 0
                      /\ r.found => (r.sets = 1 /\ r.error = "none")
             /\ r2.acks > r.acks
                   => /\ r.found => (r.sets = 1 /\ r.error = "none")
                      /\ r2.posts = r.posts
             /\ r.acks > 0
                   => /\ r2.posts = r.posts /\ r2.sets = r.sets
                      /\ r2.calls = r.calls]_vars

\* A run that missed the cache has resolved, written the cache, notified and
\* acknowledged.
C14_Witness ==
    \E m \in Messages :
        /\ Finished(m) /\ run[m].found /\ run[m].calls > 0 /\ run[m].sets = 1
        /\ Len(run[m].posts) = 1 /\ run[m].acks = 1

\* C15 (as claimed): a run redelivered after a crash between cache write and
\* ack, whose cache read does not fail and finds the entry younger than 1800
\* seconds, hits the cache without invoking a provider, and by its ack has
\* made one sink call carrying the cached URL.
C15_RedeliveryHitsAndNotifies ==
    [][\A m \in Messages :
          LET r == run[m]
              r2 == run'[m]
              e == Entry(r.keyword)
          IN /\ (r.redelivered /\ r.pc = "get" /\ r2.pc # "get"
                 /\ r2.error = "none" /\ e.present /\ now < e.wtime + TTL)
                   => r2.hit /\ r2.calls = 0 /\ r2.pc = "send"
             /\ (r.redelivered /\ r.hit /\ r2.acks > r.acks)
                   => /\ r2.posts = <<GifContent(r.keyword, r.gif_url.s)>>
                      /\ r2.nacks = 0]_vars

\* The number of steps a run can still take, at most.
Rank(r) ==
    IF r.pc = "get" THEN 8
    ELSE IF r.pc = "shuffle" THEN 7
    ELSE IF r.pc = "loop" THEN 7 - r.i
    ELSE IF r.pc = "setex" THEN 3
    ELSE IF r.pc \in {"send", "not_found"} THEN 2
    ELSE IF r.pc = "ack" THEN 1
    ELSE 0

\* C16: every run that callback starts reaches its terminal state, with an
\* ack or a nack; each step of a run brings it closer to the end (no step is
\* repeated), and the search makes at most one call per source.
C16_Terminates ==
    /\ [][\A m \in Messages :
             LET r == run[m]
                 r2 == run'[m]
             IN /\ (r.pc # "idle" /\ r2 # r) => Rank(r2) < Rank(r)
                /\ r2.calls <= Len(Sources)]_vars
    /\ \A m \in Messages :
          (run[m].pc # "idle")
              ~> (Finished(m) /\ run[m].acks + run[m].nacks = 1)

\* A run has finished after calling all three sources.
C16_Witness ==
    \E m \in Messages :
        Finished(m) /\ run[m].calls = Len(Sources) /\ run[m].sets = 1

\* C17: with searches of several runs in progress at once, each search walks
\* the one ordering of all three sources it drew, calling its sources in
\* that order one after the other, and a step of one run leaves the
\* ordering, position and result of every other run as they were.
C17_SelectorIsolated ==
    [][\A m \in Messages :
          LET r == run[m]
              r2 == run'[m]
          IN /\ r2.pc = "loop"
                   => /\ r2.sources \in Shuffles
                      /\ r2.i = r2.calls + 1
                      /\ r.pc = "loop" => r2.sources = r.sources
             /\ (r.pc = "loop" /\ r2.pc = "not_found")
                   => { r.sources[j] : j \in 1..r.i } = { Sources[j] : j \in 1..Len(Sources) }
             /\ r2 # r
                   => \A m2 \in Messages \ {m} :
                         /\ run'[m2].sources = run[m2].sources
                         /\ run'[m2].i = run[m2].i
                         /\ run'[m2].gif_url = run[m2].gif_url
                         /\ run'[m2].found = run[m2].found]_vars

\* Two searches are in progress at once, with different orderings and at
\* different positions.
C17_Witness ==
    \E m1, m2 \in Messages :
        /\ run[m1].pc = "loop" /\ run[m2].pc = "loop"
        /\ run[m1].sources # run[m2].sources
        /\ run[m1].i = 3 /\ run[m2].i = 2

\* C18: the cache changes only by the setex of a run that missed the cache
\* and got a URL from a provider, and then only in the entry of that run's
\* keyword, which becomes that URL with 1800 seconds to live from now; no
\* other step (cache hit, empty keyword, no result, parse failure) changes an
\* entry or its expiry.
C18_CacheWrittenOnMissOnly ==
    [][/\ \A m \in Messages :
             LET r == run[m]
                 r2 == run'[m]
             IN /\ r2.sets > r.sets
                      => r.pc = "setex" /\ ~r.hit /\ r.found /\ r.calls > 0
                /\ (r2 # r /\ r2.sets = r.sets) => redis' = redis
       /\ redis' # redis
             => \E m \in Messages :
                   /\ run'[m].sets = run[m].sets + 1
                   /\ redis' = [redis EXCEPT ![CacheKey(run[m].keyword)] =
                                   [present |-> TRUE,
                                    val |-> EncodeUtf8(run[m].gif_url.s),
                                    wtime |-> now, ttl |-> TTL]]
       /\ \A k \in Keys : redis'[k].present => redis'[k].ttl = TTL]_vars

\* A run has hit the cache and finished at a time after the write of the
\* entry, which still carries that write time.
C18_Witness ==
    \E m \in Messages :
        /\ Finished(m) /\ run[m].hit /\ run[m].sets = 0
        /\ Entry(run[m].keyword).present
        /\ Entry(run[m].keyword).wtime < now

\* C19: every cache entry holds a non-empty URL that a provider returned for
\* the keyword of its key to a run that then wrote it; a search that found
\* nothing writes nothing; and every URL sent to the sink is the run's URL,
\* which the run read from the cache or wrote to it.
C19_CacheHoldsProviderUrls ==
    /\ \A k \in Keywords :
          Entry(k).present
              => /\ Entry(k).val # <<>>
                 /\ \E u \in ProviderUrls(k) : Entry(k).val = EncodeUtf8(u)
                 /\ \E m \in Messages :
                       /\ run[m].keyword = k /\ run[m].found /\ run[m].sets = 1
                       /\ Entry(k).val = EncodeUtf8(run[m].gif_url.s)
    /\ \A m \in Messages :
          /\ (run[m].calls > 0 /\ ~run[m].found) => run[m].sets = 0
          /\ \A j \in 1..Len(run[m].posts) :
                run[m].posts[j].template = "gif"
                    => /\ run[m].posts[j].url = run[m].gif_url.s
                       /\ run[m].posts[j].url # <<>>
                       /\ run[m].hit \/ (run[m].sets = 1 /\ run[m].error = "none")

\* After a search that ended on an empty URL and wrote nothing, another run
\* has cached a URL and sent it.
C19_Witness ==
    \E m1, m2 \in Messages :
        /\ Finished(m1) /\ run[m1].raw = "empty_url" /\ run[m1].sets = 0
        /\ Finished(m2) /\ run[m2].found /\ run[m2].sets = 1
        /\ Len(run[m2].posts) = 1
        /\ Entry(run[m2].keyword).val = EncodeUtf8(run[m2].gif_url.s)

\* C20: a payload that is a mapping without an instruction field is handled
\* as an empty keyword: acknowledged, not negatively acknowledged, with no
\* cache access, provider call or sink call; a mapping whose instruction is
\* not a string is negatively acknowledged and not acknowledged.
C20_MissingInstructionAcked ==
    \A m \in Messages :
        /\ (run[m].pc # "idle" /\ run[m].data.kind = "map_no_instruction")
              => /\ Finished(m) /\ run[m].acks = 1 /\ run[m].nacks = 0
                 /\ run[m].gets = 0 /\ run[m].sets = 0
                 /\ run[m].calls = 0 /\ run[m].posts = <<>>
        /\ (run[m].pc # "idle"
            /\ run[m].data.kind \in {"map_instruction_null", "map_instruction_number"})
              => Finished(m) /\ run[m].nacks = 1 /\ run[m].acks = 0

\* A mapping without instruction and a mapping with a null instruction have
\* both been handled.
C20_Witness ==
    \E m1, m2 \in Messages :
        /\ Finished(m1) /\ run[m1].data.kind = "map_no_instruction"
        /\ Finished(m2) /\ run[m2].data.kind = "map_instruction_null"
====
